---- MODULE Spec2Model ----
(***************************************************************************)
(* Model of 250219_SignalAnoD_2.py: bead segmentation of welding signals,  *)
(* per-bead feature extraction and the Streamlit session that drives them. *)
(*                                                                         *)
(* Three specifications share the module:                                  *)
(*   SpecScan    - the segmentation scan loop (lines 109-120), one loop    *)
(*                 test per step, over every bounded signal and threshold; *)
(*   SpecExtract - extract_advanced_features (lines 27-54) as a function   *)
(*                 applied to every bounded signal;                        *)
(*   Spec        - the session: widgets, the "Start Bead Segmentation"     *)
(*                 handler and the "Start Detection" handler, each handler *)
(*                 one action.                                             *)
(* Sample values are integers (the code converts to float; only order and  *)
(* exact sums matter here). Indices are 0-based as in the code; TLA+       *)
(* sequences are 1-based, so sample i of a column is column[i + 1].        *)
(***************************************************************************)
EXTENDS Integers, Sequences, FiniteSets, TLC

VARIABLES
    scan,               \* locals of the scan loop (SpecScan)
    ext,                \* argument and return value of the extractor (SpecExtract)
    archive,            \* the uploaded zip: <<folder, file>> -> table (column -> samples)
    selected_folder,    \* st.selectbox("Select Folder")
    selected_csv,       \* st.selectbox("Select CSV File")
    filter_column,      \* st.selectbox("Select Filter Column")
    filter_threshold,   \* st.number_input("Set Filter Threshold")
    session_state,      \* st.session_state: has the key bead_segments once stored
    seg,                \* history: the inputs and intervals of the last stored segmentation
    run                 \* the last script run: the button pressed and its locals at the end

vars == <<scan, ext, archive, selected_folder, selected_csv, filter_column,
          filter_threshold, session_state, seg, run>>

scanVars == <<scan>>
extVars == <<ext>>
sessionVars == <<archive, selected_folder, selected_csv, filter_column,
                 filter_threshold, session_state, seg, run>>

----------------------------------------------------------------------------
(* Bounds and input sets *)

MaxLen == 4            \* longest signal given to the scan loop and to the extractor
MaxRowsA == 3          \* most rows of the recording a.csv of the first folder
MaxRowsB == 2          \* most rows of the recording b.csv (and of its copy)

Values == {0, 1, 2}    \* sample values of the scanned signals
Thresholds == {0, 1}   \* thresholds tried

SeqsUpTo(S, n) == UNION {[1..m -> S] : m \in 0..n}

Range(f) == {f[x] : x \in DOMAIN f}

----------------------------------------------------------------------------
(* The scan loop, lines 106-121 *)

\* dict.get(key, default)
DictGet(d, key, default) == IF key \in DOMAIN d THEN d[key] ELSE default

\* d[key] = value
DictSet(d, key, value) == [k \in (DOMAIN d) \cup {key} |-> IF k = key THEN value ELSE d[k]]

\* Lines 107-110: the locals before the loop.
ScanStart(filter_values, threshold) ==
    [filter_values |-> filter_values, threshold |-> threshold,
     i |-> 0, start |-> 0, bead_idx |-> 1,
     bead_numbers |-> <<>>, bead_counts |-> <<>>, intervals |-> <<>>,
     pc |-> "outer"]

\* filter_values[i] > filter_threshold
Exceeds(s) == s.filter_values[s.i + 1] > s.threshold

\* Faulty variants of ScanStep, each a slip the loop could contain; the
\* properties below are shown to tell them from the loop as written.
\* Variant: a run that lasts to the end of the signal is not recorded.
ScanStepMissesLast(s) ==
    IF s.pc = "outer" THEN
        IF s.i < Len(s.filter_values) THEN
            IF Exceeds(s) THEN [s EXCEPT !.start = s.i, !.pc = "inner"]
            ELSE [s EXCEPT !.i = s.i + 1]
        ELSE [s EXCEPT !.pc = "done"]
    ELSE IF s.pc = "inner" THEN
        IF s.i < Len(s.filter_values) /\ Exceeds(s) THEN [s EXCEPT !.i = s.i + 1]
        ELSE IF s.i < Len(s.filter_values) THEN
             [s EXCEPT !.bead_numbers = Append(s.bead_numbers, s.bead_idx),
                       !.bead_counts = DictSet(s.bead_counts, s.bead_idx,
                            DictGet(s.bead_counts, s.bead_idx, 0) + (s.i - s.start)),
                       !.intervals = Append(s.intervals, <<s.start, s.i - 1>>),
                       !.bead_idx = s.bead_idx + 1,
                       !.pc = "outer"]
        ELSE [s EXCEPT !.pc = "outer"]
    ELSE s

\* Variant: the else branch of line 119 does not advance the index.
ScanStepStuck(s) ==
    IF s.pc = "outer" THEN
        IF s.i < Len(s.filter_values) THEN
            IF Exceeds(s) THEN [s EXCEPT !.start = s.i, !.pc = "inner"]
            ELSE s
        ELSE [s EXCEPT !.pc = "done"]
    ELSE IF s.pc = "inner" THEN
        IF s.i < Len(s.filter_values) /\ Exceeds(s) THEN [s EXCEPT !.i = s.i + 1]
        ELSE [s EXCEPT !.bead_numbers = Append(s.bead_numbers, s.bead_idx),
                       !.bead_counts = DictSet(s.bead_counts, s.bead_idx,
                            DictGet(s.bead_counts, s.bead_idx, 0) + (s.i - s.start)),
                       !.intervals = Append(s.intervals, <<s.start, s.i - 1>>),
                       !.bead_idx = s.bead_idx + 1,
                       !.pc = "outer"]
    ELSE s

\* Variant: bead_idx is not incremented, so every run is added to bead 1.
ScanStepSameBead(s) ==
    IF s.pc = "outer" THEN
        IF s.i < Len(s.filter_values) THEN
            IF Exceeds(s) THEN [s EXCEPT !.start = s.i, !.pc = "inner"]
            ELSE [s EXCEPT !.i = s.i + 1]
        ELSE [s EXCEPT !.pc = "done"]
    ELSE IF s.pc = "inner" THEN
        IF s.i < Len(s.filter_values) /\ Exceeds(s) THEN [s EXCEPT !.i = s.i + 1]
        ELSE [s EXCEPT !.bead_numbers = Append(s.bead_numbers, s.bead_idx),
                       !.bead_counts = DictSet(s.bead_counts, s.bead_idx,
                            DictGet(s.bead_counts, s.bead_idx, 0) + (s.i - s.start)),
                       !.intervals = Append(s.intervals, <<s.start, s.i - 1>>),
                       !.pc = "outer"]
    ELSE s

\* One loop test and the statements it leads to. pc "outer" is the test of
\* line 111, pc "inner" the test of line 114. intervals is a history field:
\* the pair (start, i - 1) of the locals when lines 116-117 record the bead.
ScanStep(s) ==
    IF s.pc = "outer" THEN
        IF s.i < Len(s.filter_values) THEN
            IF Exceeds(s) THEN [s EXCEPT !.start = s.i, !.pc = "inner"]
            ELSE [s EXCEPT !.i = s.i + 1]
        ELSE [s EXCEPT !.pc = "done"]
    ELSE IF s.pc = "inner" THEN
        IF s.i < Len(s.filter_values) /\ Exceeds(s) THEN [s EXCEPT !.i = s.i + 1]
        ELSE [s EXCEPT !.bead_numbers = Append(s.bead_numbers, s.bead_idx),
                       !.bead_counts = DictSet(s.bead_counts, s.bead_idx,
                            DictGet(s.bead_counts, s.bead_idx, 0) + (s.i - s.start)),
                       !.intervals = Append(s.intervals, <<s.start, s.i - 1>>),
                       !.bead_idx = s.bead_idx + 1,
                       !.pc = "outer"]
    ELSE s

\* The loop run to its exit (the handler runs it without interruption).
RECURSIVE ScanRun(_)
ScanRun(s) == IF s.pc = "done" THEN s ELSE ScanRun(ScanStep(s))

----------------------------------------------------------------------------
(* extract_advanced_features, lines 27-54 *)

\* Python's None, and the test for it. A feature dict is a record of the nine
\* feature names; None is a record without them.
None == [none |-> TRUE]
IsNone(x) == "none" \in DOMAIN x

\* Real-valued results are kept exact as integer sequences: <<p, q>> stands
\* for the fraction p / q, and where the value is a root or a trigonometric
\* sum the sequence holds the integers that determine it.
RECURSIVE SeqSum(_)
SeqSum(q) == IF Len(q) = 0 THEN 0 ELSE Head(q) + SeqSum(Tail(q))

Pow(x, e) == IF e = 2 THEN x * x ELSE IF e = 3 THEN x * x * x ELSE x * x * x * x

SeqMin(sig) == CHOOSE v \in Range(sig) : \A w \in Range(sig) : v <= w
SeqMax(sig) == CHOOSE v \in Range(sig) : \A w \in Range(sig) : v >= w

\* sum of signal[j] ** e
PowerSum(sig, e) ==
    SeqSum([j \in 1..Len(sig) |-> IF e = 1 THEN sig[j] ELSE Pow(sig[j], e)])

\* sum of (n * signal[j] - sum(signal)) ** e, which is n ** e times the sum
\* of the e-th powers of the deviations from the mean
DevSum(sig, e) ==
    SeqSum([j \in 1..Len(sig) |-> Pow(Len(sig) * sig[j] - PowerSum(sig, 1), e)])

\* circular autocorrelation r[d] = sum of signal[j] * signal[(j + d) mod n];
\* the squared magnitude of FFT bin k is the sum over d of r[d] cos(2 pi k d / n)
AutoCorr(sig) ==
    [d \in 1..Len(sig) |->
        SeqSum([j \in 1..Len(sig) |-> sig[j] * sig[((j - 1 + d - 1) % Len(sig)) + 1]])]

\* the order in which lines 35-52 insert the keys
FeatureNames == <<"mean", "std_dev", "min", "max", "energy", "skewness", "kurt",
                  "spectral_energy", "dominant_freq">>

\* Variant of the extractor that returns nine zeros for the empty signal.
extract_zeros_when_empty(signal) ==
    LET n == Len(signal)
    IN  IF n = 0 THEN
            [mean |-> <<0, 1>>, std_dev |-> <<0, 1>>, min |-> <<0, 1>>,
             max |-> <<0, 1>>, energy |-> <<0, 1>>, skewness |-> <<0, 1>>,
             kurt |-> <<0, 1>>, spectral_energy |-> <<0, 1>>,
             dominant_freq |-> <<0, 1>>]
        ELSE
            [mean |-> <<PowerSum(signal, 1), n>>,
             std_dev |-> <<DevSum(signal, 2), n * n * n>>,
             min |-> <<SeqMin(signal), 1>>,
             max |-> <<SeqMax(signal), 1>>,
             energy |-> <<PowerSum(signal, 2), n>>,
             skewness |-> <<DevSum(signal, 3), DevSum(signal, 2), n>>,
             kurt |-> <<n * DevSum(signal, 4), DevSum(signal, 2)>>,
             spectral_energy |-> <<0, 1>>,
             dominant_freq |-> <<0, 1>>]

extract_advanced_features(signal) ==
    LET n == Len(signal)
        half == n \div 2                        \* len(fft_magnitude), line 45
    IN  IF n = 0 THEN None                      \* line 32
        ELSE
            [mean |-> <<PowerSum(signal, 1), n>>,
             \* np.std: the square root of this fraction
             std_dev |-> <<DevSum(signal, 2), n * n * n>>,
             min |-> <<SeqMin(signal), 1>>,
             max |-> <<SeqMax(signal), 1>>,
             energy |-> <<PowerSum(signal, 2), n>>,
             \* skew: m3 / m2 ** 1.5 with m_e = DevSum(e) / n ** (e + 1)
             skewness |-> <<DevSum(signal, 3), DevSum(signal, 2), n>>,
             \* kurtosis: m4 / m2 ** 2 - 3 = n * DevSum(4) / DevSum(2) ** 2 - 3
             kurt |-> <<n * DevSum(signal, 4), DevSum(signal, 2)>>,
             \* lines 47-52: the mean squared magnitude of bins 0 .. half - 1,
             \* and the index of the largest of them
             spectral_energy |-> IF half > 0 THEN <<half>> \o AutoCorr(signal)
                                 ELSE <<0, 1>>,
             dominant_freq |-> IF half > 1 THEN <<half>> \o AutoCorr(signal)
                               ELSE <<0, 1>>]

\* list(features.values()), line 164
FeatureValues(features) == [k \in 1..Len(FeatureNames) |-> features[FeatureNames[k]]]

\* "if features:", line 163: None and the empty dict are false
Truthy(features) == ~IsNone(features) /\ DOMAIN features # {}

----------------------------------------------------------------------------
(* Values the variables of the other specifications hold while one runs *)

IdleScan == [pc |-> "idle"]
IdleExt == [pc |-> "idle"]
NoResult == [pending |-> TRUE]
IdleSession ==
    /\ archive = <<>>
    /\ selected_folder = ""
    /\ selected_csv = ""
    /\ filter_column = ""
    /\ filter_threshold = 0
    /\ session_state = <<>>
    /\ seg = [stored |-> FALSE]
    /\ run = [button |-> "none"]

----------------------------------------------------------------------------
(* SpecScan: the scan loop step by step *)

\* The signal of the documented example, scanned with threshold 0.
ExampleSignal == <<0, 0, 2, 3, 0, 5, 0>>

InitScan ==
    /\ \E fv \in SeqsUpTo(Values, MaxLen) \cup {ExampleSignal}, t \in Thresholds :
           scan = ScanStart(fv, t)
    /\ ext = IdleExt
    /\ IdleSession

\* line 111 true, line 112 true: a run opens at i
ScanOpen ==
    /\ scan.pc = "outer" /\ scan.i < Len(scan.filter_values) /\ Exceeds(scan)
    /\ scan' = ScanStep(scan)
    /\ UNCHANGED <<extVars, sessionVars>>

\* line 111 true, line 112 false: line 120
ScanSkip ==
    /\ scan.pc = "outer" /\ scan.i < Len(scan.filter_values) /\ ~Exceeds(scan)
    /\ scan' = ScanStep(scan)
    /\ UNCHANGED <<extVars, sessionVars>>

\* line 114 true: line 115
ScanAdvance ==
    /\ scan.pc = "inner" /\ scan.i < Len(scan.filter_values) /\ Exceeds(scan)
    /\ scan' = ScanStep(scan)
    /\ UNCHANGED <<extVars, sessionVars>>

\* line 114 false: lines 116-118 record the bead
ScanClose ==
    /\ scan.pc = "inner" /\ ~(scan.i < Len(scan.filter_values) /\ Exceeds(scan))
    /\ scan' = ScanStep(scan)
    /\ UNCHANGED <<extVars, sessionVars>>

\* line 111 false: the loop exits
ScanExit ==
    /\ scan.pc = "outer" /\ ~(scan.i < Len(scan.filter_values))
    /\ scan' = ScanStep(scan)
    /\ UNCHANGED <<extVars, sessionVars>>

NextScan == ScanOpen \/ ScanSkip \/ ScanAdvance \/ ScanClose \/ ScanExit

SpecScan == InitScan /\ [][NextScan]_vars

\* The loop is straight-line sequential code: a step that can be taken is taken.
LiveScan == InitScan /\ [][NextScan]_vars /\ WF_vars(NextScan)

----------------------------------------------------------------------------
(* What the scan is required to compute, stated without the loop *)

\* the indices whose sample exceeds the threshold (strictly)
AboveSet(fv, t) == {j \in 0..(Len(fv) - 1) : fv[j + 1] > t}

\* s..e is a run of exceeding samples that cannot be extended on either side
IsMaximalRunIn(above, s, e) ==
    /\ s <= e
    /\ \A j \in s..e : j \in above
    /\ (s - 1) \notin above
    /\ (e + 1) \notin above

IsMaximalRun(fv, t, s, e) == IsMaximalRunIn(AboveSet(fv, t), s, e)

MaximalRunsIn(above, n) ==
    {r \in (0..(n - 1)) \X (0..(n - 1)) : IsMaximalRunIn(above, r[1], r[2])}

MaximalRuns(fv, t) == MaximalRunsIn(AboveSet(fv, t), Len(fv))

\* the k-th run of a set of runs from the left: the one with k - 1 runs before it
KthOf(runs, k) == CHOOSE r \in runs : Cardinality({q \in runs : q[1] < r[1]}) = k - 1

KthRun(fv, t, k) == KthOf(MaximalRuns(fv, t), k)

\* C1: when the scan of a signal has exited, the intervals it recorded are
\* maximal runs of samples strictly above the threshold, each with
\* start <= end, pairwise disjoint and in strictly increasing order of start;
\* their union is exactly the set of indices above the threshold; the count
\* stored for bead k is the length of the k-th maximal run; and the example
\* signal [0,0,2,3,0,5,0] with threshold 0 gives (2,3),(5,5).
C1_ScanYieldsMaximalRuns ==
    scan.pc = "done" =>
        LET fv == scan.filter_values
            t == scan.threshold
            iv == scan.intervals
        IN  /\ \A k \in DOMAIN iv : iv[k] \in MaximalRuns(fv, t) /\ iv[k][1] <= iv[k][2]
            /\ \A k \in 1..(Len(iv) - 1) : iv[k][2] < iv[k + 1][1]
            /\ UNION {iv[k][1]..iv[k][2] : k \in DOMAIN iv} = AboveSet(fv, t)
            /\ Len(iv) = Cardinality(MaximalRuns(fv, t))
            /\ DOMAIN scan.bead_counts = 1..Len(iv)
            /\ \A k \in DOMAIN iv :
                   /\ iv[k] = KthRun(fv, t, k)
                   /\ scan.bead_counts[k] = iv[k][2] - iv[k][1] + 1
            /\ (fv = ExampleSignal /\ t = 0) => iv = <<(<<2, 3>>), (<<5, 5>>)>>

\* C1 witness: the example has been scanned to the end and two beads recorded.
C1_Witness ==
    /\ scan.pc = "done"
    /\ scan.filter_values = ExampleSignal
    /\ scan.threshold = 0
    /\ Len(scan.intervals) = 2

\* C9: the scan terminates. The index never decreases; every inner iteration
\* and every outer iteration that takes the else branch adds one to it; an
\* outer iteration that opens a run ends with the index beyond where it began;
\* the loop reaches its exit, and there the index equals n; a run that lasts
\* to the end of the signal is recorded and closes at n - 1; a run of one
\* sample is recorded with length 1.
C9_ScanTerminates ==
    /\ [][/\ scan'.i >= scan.i
          /\ (ScanSkip \/ ScanAdvance) => scan'.i = scan.i + 1
          /\ ScanClose => (scan.i > scan.start /\ Len(scan'.intervals) = Len(scan.intervals) + 1)]_vars
    /\ <>(scan.pc = "done")
    /\ [](scan.pc = "done" =>
            LET fv == scan.filter_values
                t == scan.threshold
                n == Len(fv)
                iv == scan.intervals
            IN  /\ scan.i = n
                /\ (n - 1) \in AboveSet(fv, t) =>
                       (iv # <<>> /\ iv[Len(iv)][2] = n - 1)
                /\ \A j \in 0..(n - 1) :
                       IsMaximalRun(fv, t, j, j) =>
                           \E k \in DOMAIN iv : iv[k] = <<j, j>> /\ scan.bead_counts[k] = 1)

\* C9 witness: the scan has exited after a signal that ended inside a run of
\* one sample, which is the last bead recorded.
C9_Witness ==
    /\ scan.pc = "done"
    /\ Len(scan.filter_values) >= 2
    /\ scan.i = Len(scan.filter_values)
    /\ scan.intervals # <<>>
    /\ scan.intervals[Len(scan.intervals)] =
           <<Len(scan.filter_values) - 1, Len(scan.filter_values) - 1>>

----------------------------------------------------------------------------
(* SpecExtract: the extractor applied to every bounded signal *)

InitExtract ==
    /\ scan = IdleScan
    /\ \E sig \in SeqsUpTo(Values, MaxLen) :
           ext = [signal |-> sig, pc |-> "call", features |-> NoResult]
    /\ IdleSession

\* features = extract_advanced_features(signal)
Extract ==
    /\ ext.pc = "call"
    /\ ext' = [ext EXCEPT !.features = extract_advanced_features(ext.signal),
                          !.pc = "returned"]
    /\ UNCHANGED <<scanVars, sessionVars>>

NextExtract == Extract

SpecExtract == InitExtract /\ [][NextExtract]_vars

ZeroVector == [k \in 1..9 |-> <<0, 1>>]

\* C4 as stated: the extractor returns a vector of 9 zeros for an empty signal.
C4_EmptyGivesNineZeros ==
    (ext.pc = "returned" /\ Len(ext.signal) = 0) =>
        (~IsNone(ext.features) /\ FeatureValues(ext.features) = ZeroVector)

\* C4 as amended: for an empty signal the extractor returns None, which is no
\* feature vector and is false in the caller's test; for a signal of one or
\* more samples it returns exactly the nine named features.
C4_EmptyGivesNone ==
    ext.pc = "returned" =>
        /\ Len(ext.signal) = 0 => (IsNone(ext.features) /\ ~Truthy(ext.features))
        /\ Len(ext.signal) > 0 =>
               /\ Truthy(ext.features)
               /\ DOMAIN ext.features = Range(FeatureNames)
               /\ Len(FeatureValues(ext.features)) = 9

\* C4 witness: the extractor has returned from a call with the empty signal.
C4_Witness == ext.pc = "returned" /\ ext.signal = <<>>

----------------------------------------------------------------------------
(* The session: the uploaded archive and the widgets, lines 59-97 *)

\* extract_zip_structure (lines 13-24) of the uploaded archive: two folders,
\* the second holding a file with the same name as one of the first.
file_structure == [F1 |-> <<"a.csv", "b.csv">>, F2 |-> <<"a.csv">>]
folders == <<"F1", "F2">>

ColumnOrder == <<"c1", "c2">>
RowValues == {0, 1}

\* A CSV table: column c1 always, column c2 (when the file has it) a second
\* channel that is high where c1 is low.
MkTable(sig, has_c2) ==
    IF has_c2 THEN [c1 |-> sig, c2 |-> [j \in 1..Len(sig) |-> 1 - sig[j]]]
    ELSE [c1 |-> sig]

TablesUpTo(n) == {MkTable(sig, h) : sig \in SeqsUpTo(RowValues, n), h \in BOOLEAN}

\* F2/a.csv is a copy of the recording F1/b.csv.
MkArchive(ta, tb) ==
    [e \in {<<"F1", "a.csv">>, <<"F1", "b.csv">>, <<"F2", "a.csv">>} |->
        IF e = <<"F1", "a.csv">> THEN ta ELSE tb]

\* df.columns, and the options of the filter column selectbox, df.columns[:3]
Columns(table) == SelectSeq(ColumnOrder, LAMBDA c : c \in DOMAIN table)
FilterOptions(table) == SubSeq(Columns(table), 1, IF Len(Columns(table)) < 3
                                                   THEN Len(Columns(table)) ELSE 3)

\* pd.read_csv of an entry of the archive (lines 79-81, 103-105, 153-155)
ReadCsv(folder, file) == archive[<<folder, file>>]

csv_files == file_structure[selected_folder]                 \* line 75
df == ReadCsv(selected_folder, selected_csv)                  \* lines 81-82, 95

\* A selectbox keeps its value over a rerun while its options are the same
\* and starts again at its first option when they change.
KeepOrReset(value, old_options, new_options) ==
    IF new_options = old_options THEN value ELSE new_options[1]

NoButton == [button |-> "none"]

Init ==
    /\ scan = IdleScan
    /\ ext = IdleExt
    /\ \E ta \in TablesUpTo(MaxRowsA), tb \in TablesUpTo(MaxRowsB) :
           archive = MkArchive(ta, tb)
    /\ selected_folder = folders[1]
    /\ selected_csv = file_structure[folders[1]][1]
    /\ filter_column = FilterOptions(archive[<<folders[1], file_structure[folders[1]][1]>>])[1]
    /\ filter_threshold = 0                                   \* value=0.0, line 97
    /\ session_state = <<>>
    /\ seg = [stored |-> FALSE]
    /\ run = NoButton

\* The user picks another folder (line 72); the script reruns with no button.
SelectFolder ==
    \E f \in Range(folders) :
        /\ f # selected_folder
        /\ selected_folder' = f
        /\ selected_csv' = file_structure[f][1]
        /\ filter_column' = KeepOrReset(filter_column, FilterOptions(df),
                                FilterOptions(ReadCsv(f, file_structure[f][1])))
        /\ run' = NoButton
        /\ UNCHANGED <<scan, ext, archive, filter_threshold, session_state, seg>>

\* The user picks another CSV file of the folder (line 76).
SelectCsv ==
    \E c \in Range(csv_files) :
        /\ c # selected_csv
        /\ selected_csv' = c
        /\ filter_column' = KeepOrReset(filter_column, FilterOptions(df),
                                FilterOptions(ReadCsv(selected_folder, c)))
        /\ run' = NoButton
        /\ UNCHANGED <<scan, ext, archive, selected_folder, filter_threshold,
                       session_state, seg>>

\* The user picks another filter column among df.columns[:3] (line 96).
SetFilterColumn ==
    \E c \in Range(FilterOptions(df)) :
        /\ c # filter_column
        /\ filter_column' = c
        /\ run' = NoButton
        /\ UNCHANGED <<scan, ext, archive, selected_folder, selected_csv,
                       filter_threshold, session_state, seg>>

\* The user enters another threshold (line 97).
SetFilterThreshold ==
    \E t \in Thresholds :
        /\ t # filter_threshold
        /\ filter_threshold' = t
        /\ run' = NoButton
        /\ UNCHANGED <<scan, ext, archive, selected_folder, selected_csv,
                       filter_column, session_state, seg>>

----------------------------------------------------------------------------
(* "Start Bead Segmentation", lines 99-123 (the heat map, lines 125-138,
   draws the stored counts and changes nothing) *)

\* Lines 116-121: the counts of a scanned file are entered under its name.
EnterCounts(acc, file, s) ==
    [acc EXCEPT
        !.bead_counts_per_file = DictSet(acc.bead_counts_per_file, file, s.bead_counts),
        !.intervals = DictSet(acc.intervals, file, s.intervals),
        !.segmented = Append(acc.segmented, file)]

\* Lines 103-121 for one file: df[filter_column] raises KeyError when the file
\* has no such column; otherwise the scan runs and its counts are entered.
SegmentFile(acc, folder, file, column, threshold) ==
    LET table == ReadCsv(folder, file)
    IN  IF column \notin DOMAIN table THEN
            [acc EXCEPT !.error = "KeyError", !.failed_at = file]
        ELSE EnterCounts(acc, file, ScanRun(ScanStart(table[column], threshold)))

\* Lines 100-121: the loop over csv_files; an exception ends it.
RECURSIVE SegmentLoop(_, _, _, _, _, _)
SegmentLoop(acc, files, n, folder, column, threshold) ==
    IF n > Len(files) \/ acc.error # "none" THEN acc
    ELSE SegmentLoop(SegmentFile(acc, folder, files[n], column, threshold),
                     files, n + 1, folder, column, threshold)

SegmentStart ==
    [bead_counts_per_file |-> <<>>, intervals |-> <<>>, segmented |-> <<>>,
     error |-> "none", failed_at |-> ""]

\* Variant of line 123 that keeps the stored entries of files not segmented now.
StoreSegmentsMerging(state, acc) ==
    IF acc.error # "none" THEN state
    ELSE IF "bead_segments" \in DOMAIN state
         THEN [bead_segments |->
                  [f \in DOMAIN state.bead_segments \cup DOMAIN acc.bead_counts_per_file |->
                      IF f \in DOMAIN acc.bead_counts_per_file
                      THEN acc.bead_counts_per_file[f]
                      ELSE state.bead_segments[f]]]
         ELSE [bead_segments |-> acc.bead_counts_per_file]

\* Variant that stores whatever was segmented before an exception.
StoreSegmentsPartial(state, acc) ==
    IF acc.bead_counts_per_file = <<>> THEN state
    ELSE [bead_segments |-> acc.bead_counts_per_file]

\* Line 123, reached only when the loop raised nothing.
StoreSegments(state, acc) ==
    IF acc.error # "none" THEN state
    ELSE [bead_segments |-> acc.bead_counts_per_file]

\* The end of the handler: line 123 when the loop raised nothing. seg and run
\* record what the handler was given and did; before_files is the file set
\* of the map stored before it.
SegmentationDone(acc) ==
        /\ session_state' = StoreSegments(session_state, acc)
        /\ seg' = IF acc.error = "none"
                  THEN [stored |-> TRUE, folder |-> selected_folder,
                        csv_files |-> csv_files, column |-> filter_column,
                        threshold |-> filter_threshold, intervals |-> acc.intervals]
                  ELSE seg
        /\ run' = [button |-> "segment", error |-> acc.error,
                   failed_at |-> acc.failed_at, segmented |-> acc.segmented,
                   before_files |-> IF "bead_segments" \in DOMAIN session_state
                                    THEN DOMAIN session_state.bead_segments ELSE {}]
        /\ UNCHANGED <<scan, ext, archive, selected_folder, selected_csv,
                       filter_column, filter_threshold>>

StartBeadSegmentation ==
    \E acc \in {SegmentLoop(SegmentStart, csv_files, 1, selected_folder,
                           filter_column, filter_threshold)} : SegmentationDone(acc)

----------------------------------------------------------------------------
(* "Start Detection", lines 141-180 *)

\* df.index[df[column] > threshold]: the row indices whose sample exceeds the
\* threshold, in increasing order
AboveIdx(column, threshold) ==
    SelectSeq([j \in 1..Len(column) |-> j - 1], LAMBDA j : column[j + 1] > threshold)

\* series[start:end].values: a slice stops at the end of the series
Slice(series, start, end) ==
    SubSeq(series, start + 1, IF end < Len(series) THEN end ELSE Len(series))

\* max_beads, line 144, and the options of the bead selectbox, line 145. With
\* no option the selectbox returns None, written 0 here: it is no key of any
\* bead map.
max_beads ==
    LET sizes == {Len(session_state.bead_segments[f]) : f \in DOMAIN session_state.bead_segments}
    IN  CHOOSE m \in sizes : \A x \in sizes : m >= x
BeadOptions == IF max_beads = 0 THEN {0} ELSE 1..max_beads

DetectStart ==
    [bead_features |-> <<>>, bead_names |-> <<>>, raw_signals |-> <<>>,
     extent |-> <<>>, error |-> "none", failed_at |-> ""]

\* Lines 158-165 once start is known.
TakeBead(acc, file, series, start) ==
    LET end == start + 1                                              \* line 158
        bead_signal == Slice(series, start, end)                      \* line 159
        features == extract_advanced_features(bead_signal)
        kept == [acc EXCEPT
                    !.raw_signals = DictSet(acc.raw_signals, file, bead_signal),
                    !.extent = DictSet(acc.extent, file, <<start, end>>)]
    IN  IF Len(bead_signal) > 0 /\ Truthy(features) THEN             \* lines 161-163
            [kept EXCEPT
                !.bead_features = Append(acc.bead_features, FeatureValues(features)),
                !.bead_names = Append(acc.bead_names, file)]
        ELSE kept

\* Lines 155-165 for one file.
DetectFile(acc, file, bead, column) ==
    LET table == ReadCsv(selected_folder, file)
    IN  IF file \notin DOMAIN session_state.bead_segments THEN        \* line 156
            [acc EXCEPT !.error = "KeyError", !.failed_at = file]
        ELSE IF bead \notin DOMAIN session_state.bead_segments[file] THEN
            acc
        ELSE IF filter_column \notin DOMAIN table THEN                \* line 157
            [acc EXCEPT !.error = "KeyError", !.failed_at = file]
        ELSE
            LET index == AboveIdx(table[filter_column], filter_threshold)
            IN  IF bead - 1 >= Len(index) THEN
                    [acc EXCEPT !.error = "IndexError", !.failed_at = file]
                ELSE IF column \notin DOMAIN table THEN                \* line 159
                    [acc EXCEPT !.error = "KeyError", !.failed_at = file]
                ELSE TakeBead(acc, file, table[column], index[(bead - 1) + 1])

\* Lines 152-165: the loop over csv_files; an exception ends it.
RECURSIVE DetectLoop(_, _, _, _, _)
DetectLoop(acc, files, n, bead, column) ==
    IF n > Len(files) \/ acc.error # "none" THEN acc
    ELSE DetectLoop(DetectFile(acc, files[n], bead, column), files, n + 1, bead, column)

\* Variant of lines 167-180 without the guard of line 167.
FitAlways(acc, predictions) ==
    [model_fitted |-> TRUE,
     predictions |-> predictions,
     error |-> IF acc.bead_features = <<>> THEN "ValueError" ELSE "none"]

\* Lines 167-180 after a loop that raised nothing: with rows, the model is
\* built and fitted and labels each row 1 or -1 (predictions is what it
\* returned), and line 175 looks every plotted file up among the rows; with no
\* rows, only the warning of line 180.
FitGuard(acc, predictions) ==
    IF acc.bead_features # <<>> THEN
        [model_fitted |-> TRUE,
         predictions |-> predictions,
         error |-> IF DOMAIN acc.raw_signals \subseteq Range(acc.bead_names)
                   THEN "none" ELSE "KeyError"]
    ELSE
        [model_fitted |-> FALSE, predictions |-> <<>>, error |-> "none"]

StartDetection ==
    /\ "bead_segments" \in DOMAIN session_state                      \* line 141
    /\ \E bead \in BeadOptions, column \in Range(Columns(df)) :
         \E acc \in {DetectLoop(DetectStart, csv_files, 1, bead, column)} :
           \E predictions \in [1..Len(acc.bead_features) -> {1, -1}] :
             \E fit \in {IF acc.error = "none" THEN FitGuard(acc, predictions)
                          ELSE [model_fitted |-> FALSE, predictions |-> <<>>,
                                error |-> acc.error]} :
                   run' = [button |-> "detect",
                           selected_bead_number |-> bead,
                           selected_column |-> column,
                           loop_error |-> acc.error,
                           failed_at |-> acc.failed_at,
                           bead_features |-> acc.bead_features,
                           bead_names |-> acc.bead_names,
                           raw_signals |-> acc.raw_signals,
                           extent |-> acc.extent,
                           model_fitted |-> fit.model_fitted,
                           predictions |-> fit.predictions,
                           error |-> fit.error]
    /\ UNCHANGED <<scan, ext, archive, selected_folder, selected_csv,
                   filter_column, filter_threshold, session_state, seg>>

Next ==
    \/ SelectFolder
    \/ SelectCsv
    \/ SetFilterColumn
    \/ SetFilterThreshold
    \/ StartBeadSegmentation
    \/ StartDetection

Spec == Init /\ [][Next]_vars

----------------------------------------------------------------------------
(* Claims about the session *)

bead_segments == session_state.bead_segments
Stored == "bead_segments" \in DOMAIN session_state

\* the run lengths of a column from left to right, stated without the loop
LengthsOf(runs) ==
    [k \in 1..Cardinality(runs) |-> KthOf(runs, k)[2] - KthOf(runs, k)[1] + 1]

RunLengths(column, threshold) == LengthsOf(MaximalRuns(column, threshold))

\* the widgets still hold what the stored segmentation was made with
Fresh ==
    /\ seg.stored
    /\ seg.folder = selected_folder
    /\ seg.column = filter_column
    /\ seg.threshold = filter_threshold

\* the folder is the one that was segmented, and every file of it has a
\* stored bead map and has the two columns the detection reads
SchemaOk ==
    /\ seg.stored /\ seg.folder = selected_folder
    /\ \A f \in Range(csv_files) :
          /\ f \in DOMAIN bead_segments
          /\ filter_column \in DOMAIN ReadCsv(selected_folder, f)
          /\ run.selected_column \in DOMAIN ReadCsv(selected_folder, f)

\* the files of the folder, in order, whose stored bead map has the bead
FilesWithBead(bead) ==
    SelectSeq(csv_files, LAMBDA f : f \in DOMAIN bead_segments /\ bead \in DOMAIN bead_segments[f])

\* C2: after a detection made with the widgets the segmentation was made with,
\* the signal taken from each file that has bead k is the target column over
\* start_index..end_index inclusive of the k-th interval found in that file:
\* it begins at the interval's first index and has the interval's length.
C2_ExtractsKthInterval ==
    (run.button = "detect" /\ run.error = "none" /\ Fresh) =>
        \A f \in DOMAIN run.raw_signals :
            LET iv == seg.intervals[f][run.selected_bead_number]
                series == ReadCsv(selected_folder, f)[run.selected_column]
            IN  /\ run.extent[f][1] = iv[1]
                /\ Len(run.raw_signals[f]) = iv[2] - iv[1] + 1
                /\ run.raw_signals[f] = SubSeq(series, iv[1] + 1, iv[2] + 1)

\* C3: a detection over the segmented files, all having the columns it reads, raises no
\* error, skips the files whose bead map lacks the selected bead and yields
\* exactly one feature row per file that has it, labelled with that file.
C3_OneRowPerFileWithBead ==
    (run.button = "detect" /\ SchemaOk) =>
        /\ run.error = "none"
        /\ run.bead_names = FilesWithBead(run.selected_bead_number)
        /\ Len(run.bead_features) = Len(FilesWithBead(run.selected_bead_number))

\* C5: a detection whose loop ends with no feature row builds and fits no
\* model, gives no label and raises nothing; and that is how it ends when no
\* file of the folder has the selected bead in its stored map.
C5_NoRowsNoModel ==
    run.button = "detect" =>
        /\ (run.loop_error = "none" /\ run.bead_features = <<>>) =>
               (~run.model_fitted /\ run.predictions = <<>> /\ run.error = "none")
        /\ (\A f \in Range(csv_files) :
               f \in DOMAIN bead_segments
               /\ run.selected_bead_number \notin DOMAIN bead_segments[f]) =>
               (run.loop_error = "none" /\ run.bead_features = <<>>)
        /\ Len(run.predictions) = (IF run.model_fitted THEN Len(run.bead_features) ELSE 0)

\* C5 witness: a bead was selected, no file of the folder has it, and the
\* detection ended with no rows.
C5_Witness ==
    /\ run.button = "detect"
    /\ run.selected_bead_number >= 1
    /\ run.loop_error = "none"
    /\ run.bead_features = <<>>
    /\ run.raw_signals = <<>>

C7_MapReplacedWholesale ==
    Stored =>
        /\ seg.stored
        /\ DOMAIN bead_segments = Range(seg.csv_files)
        /\ \A f \in DOMAIN bead_segments :
              bead_segments[f] =
                  RunLengths(ReadCsv(seg.folder, f)[seg.column], seg.threshold)
        /\ (run.button = "segment" /\ run.error = "none") =>
              (Fresh /\ seg.csv_files = csv_files)

\* C7 witness: a segmentation has replaced a stored map that had entries for
\* another set of files.
C7_Witness ==
    /\ run.button = "segment" /\ run.error = "none" /\ Stored
    /\ run.before_files # {}
    /\ run.before_files # DOMAIN bead_segments

\* the positions in csv_files of the files without the filter column
Lacking == {n \in DOMAIN csv_files :
               filter_column \notin DOMAIN ReadCsv(selected_folder, csv_files[n])}
FirstLacking == CHOOSE n \in Lacking : \A m \in Lacking : n <= m

\* C8: a segmentation over a folder in which some file lacks the filter
\* column fails at the first such file: the files before it were segmented,
\* none after it, and the step leaves st.session_state as it was (nothing
\* stored, nothing cleared).
C8_FailFastLeavesMap ==
    /\ [](run.button = "segment" =>
            /\ (run.error # "none") <=> (Lacking # {})
            /\ Lacking # {} =>
                  /\ run.error = "KeyError"
                  /\ run.failed_at = csv_files[FirstLacking]
                  /\ run.segmented = SubSeq(csv_files, 1, FirstLacking - 1))
    /\ [][(run'.button = "segment" /\ run'.error # "none") =>
              /\ DOMAIN session_state' = DOMAIN session_state
              /\ Stored => session_state'.bead_segments = session_state.bead_segments
              /\ seg' = seg]_vars

\* C8 witness: a segmentation failed at the second file after segmenting the
\* first, with a bead map stored before it.
C8_Witness ==
    /\ run.button = "segment" /\ run.error = "KeyError"
    /\ Len(run.segmented) = 1
    /\ run.before_files # {}
    /\ Stored

\* C10: after a detection over the segmented files, whatever the filter column
\* and threshold now are, every file of the folder whose stored map has the
\* selected bead k has at least k samples above the current threshold in the
\* current filter column, so that position k - 1 of its above-threshold
\* indices exists.
C10_LookupInRange ==
    (run.button = "detect" /\ SchemaOk) =>
        \A f \in Range(csv_files) :
            run.selected_bead_number \in DOMAIN bead_segments[f] =>
                Len(AboveIdx(ReadCsv(selected_folder, f)[filter_column], filter_threshold))
                    >= run.selected_bead_number

====
